---- MODULE Spec2Model ----
(***************************************************************************)
(* Graph algorithms of tryalgo: single-source shortest paths (bfs, dist01, *)
(* dijkstra, dijkstra_update_heap), floyd_warshall, max_bipartite_matching *)
(* and ford_fulkerson, each as a state machine whose steps are the         *)
(* iterations of the function's main loop.                                 *)
(***************************************************************************)
EXTENDS Integers, Sequences, FiniteSets, TLC

\* ---------------------------------------------------------------- bounds
\* number of vertices of every input graph
N == 3
\* largest number of arcs of an input graph
MaxArcs == 3
\* largest arc weight of a shortest-path input
MaxW == 2

V == 0 .. (N - 1)

\* None of Python: never equal to a vertex
None == -1
\* float('inf'): larger than every finite distance, absorbing under addition
Inf == 999

Plus(a, b) == IF a = Inf \/ b = Inf THEN Inf ELSE a + b

Min2(a, b) == IF b < a THEN b ELSE a

\* comparison of the tuples (key, vertex) held in the heaps
TupleLess(a, b) == a[1] < b[1] \/ (a[1] = b[1] /\ a[2] < b[2])

\* sequences without a repeated element
Injective(s) == \A i, j \in 1 .. Len(s) : i # j => s[i] # s[j]

SeqsUpTo(S, n) == UNION {[1 .. k -> S] : k \in 0 .. n}

Range(s) == {s[i] : i \in 1 .. Len(s)}

\* -------------------------------------------------------------- inputs
\* A graph over the vertices 0 .. n-1 is an adjacency list: graph[u] is a
\* sequence of distinct out-neighbours of u, none of them u itself (the
\* graphs are simple).  A table is a matrix holding the value of every
\* arc, 0 on the diagonal and None where there is no arc (the matrix
\* read_graph builds with default_weight=None).
InjLists(n) == {l \in SeqsUpTo(0 .. (n - 2), n - 1) : Injective(l)}

\* the list l over 0 .. n-2 as a list of the vertices other than u
Shift(l, u) == [i \in 1 .. Len(l) |-> IF l[i] >= u THEN l[i] + 1 ELSE l[i]]

RECURSIVE TotalLen(_, _)
TotalLen(g, n) == IF n = 0 THEN 0 ELSE Len(g[n - 1]) + TotalLen(g, n - 1)

\* the graphs over 0 .. n-1 with at most m arcs
Graphs(n, m) ==
    {[u \in 0 .. (n - 1) |-> Shift(c[u], u)] :
        c \in {d \in [0 .. (n - 1) -> InjLists(n)] : TotalLen(d, n) <= m}}

\* the pairs of distinct vertices
Arcs == {a \in V \X V : a[1] # a[2]}

ArcsOf(g) ==
    {a \in (DOMAIN g) \X (DOMAIN g) :
        \E i \in 1 .. Len(g[a[1]]) : g[a[1]][i] = a[2]}

\* the matrix of the table w, a function on the arcs of g
Matrix(g, w) ==
    [u \in DOMAIN g |-> [v \in DOMAIN g |->
        IF <<u, v>> \in DOMAIN w THEN w[<<u, v>>]
        ELSE IF u = v THEN 0 ELSE None]]

VARIABLES
    graph,      \* adjacency lists, graph[u] a sequence of out-neighbours
    weight,     \* weight matrix, weight[u][v] read only for arcs
    source,
    target,     \* a vertex or None
    dj,         \* the call of dijkstra
    uh,         \* the call of dijkstra_update_heap
    zo,         \* the call of dist01
    bf,         \* the call of bfs
    capacity,   \* capacity matrix of ford_fulkerson
    ff,         \* the call of ford_fulkerson
    bigraph,    \* bigraph[u], the neighbours in V of the vertex u of U
    bm,         \* the call of max_bipartite_matching
    fw,         \* the call of floyd_warshall
    ra          \* the calls of add_reverse_arcs

vars == <<graph, weight, source, target, dj, uh, zo, bf,
          capacity, ff, bigraph, bm, fw, ra>>

\* what the shortest-path functions leave alone
notSP == <<capacity, ff, bigraph, bm, fw, ra>>

\* what ford_fulkerson leaves alone
notFF == <<weight, dj, uh, zo, bf, bigraph, bm, fw, ra>>

\* what max_bipartite_matching leaves alone
notBM == <<graph, weight, source, target, dj, uh, zo, bf, capacity, ff, fw, ra>>

\* what floyd_warshall leaves alone
notFW == <<graph, source, target, dj, uh, zo, bf, capacity, ff, bigraph, bm, ra>>

\* what add_reverse_arcs leaves alone
notRA == <<weight, source, target, dj, uh, zo, bf, ff, bigraph, bm, fw>>

Idle == [pc |-> "idle"]

\* ---------------------------------------------------------- dijkstra
\* DijkstraRelax relaxing only a vertex never reached before
RECURSIVE DijkstraRelaxUnseenOnly(_, _, _, _)
DijkstraRelaxUnseenOnly(st, node, dist_node, i) ==
    IF i > Len(graph[node]) THEN st
    ELSE LET neighbor == graph[node][i]
             dist_neighbor == Plus(dist_node, weight[node][neighbor])
         IN  IF st.dist[neighbor] = Inf /\ dist_neighbor < Inf
             THEN DijkstraRelaxUnseenOnly(
                     [st EXCEPT !.dist[neighbor] = dist_neighbor,
                                !.prec[neighbor] = node,
                                !.heap = Append(@, <<dist_neighbor, neighbor>>)],
                     node, dist_node, i + 1)
             ELSE DijkstraRelaxUnseenOnly(st, node, dist_node, i + 1)

\* lines 37-42: the scan of graph[node] from its i-th entry on
RECURSIVE DijkstraRelax(_, _, _, _)
DijkstraRelax(st, node, dist_node, i) ==
    IF i > Len(graph[node]) THEN st
    ELSE LET neighbor == graph[node][i]
             dist_neighbor == Plus(dist_node, weight[node][neighbor])
         IN  IF dist_neighbor < st.dist[neighbor]
             THEN DijkstraRelax(
                     [st EXCEPT !.dist[neighbor] = dist_neighbor,
                                !.prec[neighbor] = node,
                                !.heap = Append(@, <<dist_neighbor, neighbor>>)],
                     node, dist_node, i + 1)
             ELSE DijkstraRelax(st, node, dist_node, i + 1)

\* heappop: the position of the least tuple of the heap
HeapMinIndex(heap) ==
    CHOOSE i \in 1 .. Len(heap) :
        \A j \in 1 .. Len(heap) :
            ~TupleLess(heap[j], heap[i]) /\ (heap[j] = heap[i] => i <= j)

RemoveAt(s, i) == SubSeq(s, 1, i - 1) \o SubSeq(s, i + 1, Len(s))

\* lines 24-30
DijkstraCall ==
    /\ dj.pc = "idle"
    /\ dj' = [pc |-> "loop",
              dist |-> [v \in V |-> IF v = source THEN 0 ELSE Inf],
              prec |-> [v \in V |-> None],
              black |-> [v \in V |-> FALSE],
              heap |-> <<<<0, source>>>>,
              popped |-> <<>>,
              scanned |-> <<>>]
    /\ UNCHANGED <<graph, weight, source, target, uh, zo, bf, notSP>>

\* lines 31-42: one iteration of the while loop
DijkstraLoop ==
    /\ dj.pc = "loop"
    /\ dj.heap # <<>>
    /\ LET i == HeapMinIndex(dj.heap)
           dist_node == dj.heap[i][1]
           node == dj.heap[i][2]
           st1 == [dj EXCEPT !.heap = RemoveAt(@, i),
                             !.popped = Append(@, node)]
       IN  IF ~dj.black[node]
           THEN IF node = target
                THEN dj' = [st1 EXCEPT !.black[node] = TRUE, !.pc = "break"]
                ELSE dj' = DijkstraRelax(
                              [st1 EXCEPT !.black[node] = TRUE,
                                          !.scanned = Append(@, node)],
                              node, dist_node, 1)
           ELSE dj' = st1
    /\ UNCHANGED <<graph, weight, source, target, uh, zo, bf, notSP>>

\* line 43, reached by the break or with the heap empty
DijkstraReturn ==
    /\ \/ dj.pc = "break"
       \/ dj.pc = "loop" /\ dj.heap = <<>>
    /\ dj' = [dj EXCEPT !.pc = "done"]
    /\ UNCHANGED <<graph, weight, source, target, uh, zo, bf, notSP>>

\* ----------------------------------------- OurHeap (tryalgo.our_heap)
\* An updatable min-priority queue of (key, vertex) items: insert,
\* extract-min and update-key.  The items are kept in insertion order;
\* pop takes the least item.
OurHeap(items) == items

OurHeapPopIndex(heap) ==
    CHOOSE i \in 1 .. Len(heap) :
        \A j \in 1 .. Len(heap) : i # j => TupleLess(heap[i], heap[j])

OurHeapHas(heap, item) == \E i \in 1 .. Len(heap) : heap[i] = item

OurHeapUpdate(heap, old, new) ==
    [i \in 1 .. Len(heap) |-> IF heap[i] = old THEN new ELSE heap[i]]

\* ----------------------------------------------- dijkstra_update_heap
\* UpdateHeapRelax relaxing on new <= old
RECURSIVE UpdateHeapRelaxOnTie(_, _, _, _)
UpdateHeapRelaxOnTie(st, node, dist_node, i) ==
    IF i > Len(graph[node]) \/ st.pc = "error" THEN st
    ELSE LET neighbor == graph[node][i]
             old == st.dist[neighbor]
             new == Plus(dist_node, weight[node][neighbor])
         IN  IF new <= old
             THEN IF OurHeapHas(st.heap, <<old, neighbor>>)
                  THEN UpdateHeapRelaxOnTie(
                          [st EXCEPT !.dist[neighbor] = new,
                                     !.prec[neighbor] = node,
                                     !.heap = OurHeapUpdate(@, <<old, neighbor>>,
                                                            <<new, neighbor>>)],
                          node, dist_node, i + 1)
                  ELSE [st EXCEPT !.dist[neighbor] = new,
                                  !.prec[neighbor] = node,
                                  !.pc = "error"]
             ELSE UpdateHeapRelaxOnTie(st, node, dist_node, i + 1)

\* lines 78-84: the scan of graph[node] from its i-th entry on; an update
\* of an item the heap does not hold raises (pc = "error")
RECURSIVE UpdateHeapRelax(_, _, _, _)
UpdateHeapRelax(st, node, dist_node, i) ==
    IF i > Len(graph[node]) \/ st.pc = "error" THEN st
    ELSE LET neighbor == graph[node][i]
             old == st.dist[neighbor]
             new == Plus(dist_node, weight[node][neighbor])
         IN  IF new < old
             THEN IF OurHeapHas(st.heap, <<old, neighbor>>)
                  THEN UpdateHeapRelax(
                          [st EXCEPT !.dist[neighbor] = new,
                                     !.prec[neighbor] = node,
                                     !.heap = OurHeapUpdate(@, <<old, neighbor>>,
                                                            <<new, neighbor>>)],
                          node, dist_node, i + 1)
                  ELSE [st EXCEPT !.dist[neighbor] = new,
                                  !.prec[neighbor] = node,
                                  !.pc = "error"]
             ELSE UpdateHeapRelax(st, node, dist_node, i + 1)

\* lines 68-73
UpdateHeapCall ==
    /\ dj.pc = "done"
    /\ uh.pc = "idle"
    /\ LET dist == [v \in V |-> IF v = source THEN 0 ELSE Inf]
       IN  uh' = [pc |-> "loop",
                  dist |-> dist,
                  prec |-> [v \in V |-> None],
                  heap |-> OurHeap([i \in 1 .. N |-> <<dist[i - 1], i - 1>>]),
                  popped |-> <<>>,
                  scanned |-> <<>>]
    /\ UNCHANGED <<graph, weight, source, target, dj, zo, bf, notSP>>

\* lines 74-84: one iteration of the while loop
UpdateHeapLoop ==
    /\ uh.pc = "loop"
    /\ uh.heap # <<>>
    /\ LET i == OurHeapPopIndex(uh.heap)
           dist_node == uh.heap[i][1]
           node == uh.heap[i][2]
           st1 == [uh EXCEPT !.heap = RemoveAt(@, i),
                             !.popped = Append(@, node)]
       IN  IF node = target
           THEN uh' = [st1 EXCEPT !.pc = "break"]
           ELSE uh' = UpdateHeapRelax(
                         [st1 EXCEPT !.scanned = Append(@, node)],
                         node, dist_node, 1)
    /\ UNCHANGED <<graph, weight, source, target, dj, zo, bf, notSP>>

\* line 85
UpdateHeapReturn ==
    /\ \/ uh.pc = "break"
       \/ uh.pc = "loop" /\ uh.heap = <<>>
    /\ uh' = [uh EXCEPT !.pc = "done"]
    /\ UNCHANGED <<graph, weight, source, target, dj, zo, bf, notSP>>

\* -------------------------------------------------------------- dist01
\* Dist01Relax with the two ends of the deque exchanged
RECURSIVE Dist01RelaxEndsSwapped(_, _, _)
Dist01RelaxEndsSwapped(st, node, i) ==
    IF i > Len(graph[node]) THEN st
    ELSE LET neighbor == graph[node][i]
             ell == Plus(st.dist[node], weight[node][neighbor])
         IN  IF st.black[neighbor] \/ st.dist[neighbor] <= ell
             THEN Dist01RelaxEndsSwapped(st, node, i + 1)
             ELSE Dist01RelaxEndsSwapped(
                     [st EXCEPT !.dist[neighbor] = ell,
                                !.prec[neighbor] = node,
                                !.gray = IF weight[node][neighbor] = 0
                                         THEN <<neighbor>> \o @
                                         ELSE Append(@, neighbor)],
                     node, i + 1)

\* lines 29-39: the scan of graph[node] from its i-th entry on
RECURSIVE Dist01Relax(_, _, _)
Dist01Relax(st, node, i) ==
    IF i > Len(graph[node]) THEN st
    ELSE LET neighbor == graph[node][i]
             ell == Plus(st.dist[node], weight[node][neighbor])
         IN  IF st.black[neighbor] \/ st.dist[neighbor] <= ell
             THEN Dist01Relax(st, node, i + 1)
             ELSE Dist01Relax(
                     [st EXCEPT !.dist[neighbor] = ell,
                                !.prec[neighbor] = node,
                                !.gray = IF weight[node][neighbor] = 0
                                         THEN Append(@, neighbor)
                                         ELSE <<neighbor>> \o @],
                     node, i + 1)

\* lines 19-24
Dist01Call ==
    /\ uh.pc = "done"
    /\ zo.pc = "idle"
    /\ zo' = [pc |-> "loop",
              dist |-> [v \in V |-> IF v = source THEN 0 ELSE Inf],
              prec |-> [v \in V |-> None],
              black |-> [v \in V |-> FALSE],
              gray |-> <<source>>,
              popped |-> <<>>,
              scanned |-> <<>>]
    /\ UNCHANGED <<graph, weight, source, target, dj, uh, bf, notSP>>

\* Dist01Loop taking the left end of the deque (popleft)
Dist01LoopPopLeft ==
    /\ zo.pc = "loop"
    /\ zo.gray # <<>>
    /\ LET node == zo.gray[1]
           st1 == [zo EXCEPT !.gray = SubSeq(@, 2, Len(@)),
                             !.black[node] = TRUE,
                             !.popped = Append(@, node)]
       IN  IF node = target
           THEN zo' = [st1 EXCEPT !.pc = "break"]
           ELSE zo' = Dist01Relax([st1 EXCEPT !.scanned = Append(@, node)],
                                  node, 1)
    /\ UNCHANGED <<graph, weight, source, target, dj, uh, bf, notSP>>

\* lines 24-39: one iteration of the while loop; gray.pop() takes the
\* right end of the deque
Dist01Loop ==
    /\ zo.pc = "loop"
    /\ zo.gray # <<>>
    /\ LET node == zo.gray[Len(zo.gray)]
           st1 == [zo EXCEPT !.gray = SubSeq(@, 1, Len(@) - 1),
                             !.black[node] = TRUE,
                             !.popped = Append(@, node)]
       IN  IF node = target
           THEN zo' = [st1 EXCEPT !.pc = "break"]
           ELSE zo' = Dist01Relax([st1 EXCEPT !.scanned = Append(@, node)],
                                  node, 1)
    /\ UNCHANGED <<graph, weight, source, target, dj, uh, bf, notSP>>

\* line 40
Dist01Return ==
    /\ \/ zo.pc = "break"
       \/ zo.pc = "loop" /\ zo.gray = <<>>
    /\ zo' = [zo EXCEPT !.pc = "done"]
    /\ UNCHANGED <<graph, weight, source, target, dj, uh, bf, notSP>>

\* ----------------------------------------------------------------- bfs
\* BfsRelax taking a vertex without predecessor for a vertex not yet seen
RECURSIVE BfsRelaxNoPrec(_, _, _)
BfsRelaxNoPrec(st, node, i) ==
    IF i > Len(graph[node]) THEN st
    ELSE LET neighbor == graph[node][i]
         IN  IF st.prec[neighbor] = None
             THEN BfsRelaxNoPrec(
                     [st EXCEPT !.dist[neighbor] = Plus(st.dist[node], 1),
                                !.prec[neighbor] = node,
                                !.to_visit = <<neighbor>> \o @],
                     node, i + 1)
             ELSE BfsRelaxNoPrec(st, node, i + 1)

\* lines 24-28: the scan of graph[node] from its i-th entry on
RECURSIVE BfsRelax(_, _, _)
BfsRelax(st, node, i) ==
    IF i > Len(graph[node]) THEN st
    ELSE LET neighbor == graph[node][i]
         IN  IF st.dist[neighbor] = Inf
             THEN BfsRelax(
                     [st EXCEPT !.dist[neighbor] = Plus(st.dist[node], 1),
                                !.prec[neighbor] = node,
                                !.to_visit = <<neighbor>> \o @],
                     node, i + 1)
             ELSE BfsRelax(st, node, i + 1)

\* lines 17-21
BfsCall ==
    /\ zo.pc = "done"
    /\ bf.pc = "idle"
    /\ bf' = [pc |-> "loop",
              dist |-> [v \in V |-> IF v = source THEN 0 ELSE Inf],
              prec |-> [v \in V |-> None],
              to_visit |-> <<source>>,
              popped |-> <<>>,
              scanned |-> <<>>]
    /\ UNCHANGED <<graph, weight, source, target, dj, uh, zo, notSP>>

\* lines 22-28: one iteration of the while loop
BfsLoop ==
    /\ bf.pc = "loop"
    /\ bf.to_visit # <<>>
    /\ LET node == bf.to_visit[Len(bf.to_visit)]
           st1 == [bf EXCEPT !.to_visit = SubSeq(@, 1, Len(@) - 1),
                             !.popped = Append(@, node),
                             !.scanned = Append(@, node)]
       IN  bf' = BfsRelax(st1, node, 1)
    /\ UNCHANGED <<graph, weight, source, target, dj, uh, zo, notSP>>

\* line 29
BfsReturn ==
    /\ bf.pc = "loop"
    /\ bf.to_visit = <<>>
    /\ bf' = [bf EXCEPT !.pc = "done"]
    /\ UNCHANGED <<graph, weight, source, target, dj, uh, zo, notSP>>

\* ------------------------------------------- shortest paths, by definition
\* the simple paths of the input graph from u to v
IsArc(u, v) == \E i \in 1 .. Len(graph[u]) : graph[u][i] = v

SimplePaths(u, v) ==
    {p \in SeqsUpTo(V, N) :
        /\ Len(p) >= 1
        /\ p[1] = u
        /\ p[Len(p)] = v
        /\ Injective(p)
        /\ \A i \in 1 .. (Len(p) - 1) : IsArc(p[i], p[i + 1])}

RECURSIVE PathWeight(_, _)
PathWeight(p, i) ==
    IF i >= Len(p) THEN 0
    ELSE weight[p[i]][p[i + 1]] + PathWeight(p, i + 1)

\* the weight of a shortest path from u to v, Inf without a path
ShortestDist(u, v) ==
    LET ws == {PathWeight(p, 1) : p \in SimplePaths(u, v)}
    IN  IF ws = {} THEN Inf ELSE CHOOSE w \in ws : \A x \in ws : w <= x

Last(s) == s[Len(s)]

Weights01 == \A u \in V : \A i \in 1 .. Len(graph[u]) : weight[u][graph[u][i]] \in {0, 1}

WeightsUnit == \A u \in V : \A i \in 1 .. Len(graph[u]) : weight[u][graph[u][i]] = 1

NbArcs == Cardinality({a \in V \X V : IsArc(a[1], a[2])})

\* dist and prec form a shortest-path tree of the input rooted at source
IsShortestPathTree(dist, prec) ==
    /\ \A v \in V : dist[v] = ShortestDist(source, v)
    /\ prec[source] = None
    /\ \A v \in V : dist[v] = Inf => prec[v] = None
    /\ \A v \in V \ {source} :
          dist[v] # Inf =>
             /\ prec[v] \in V
             /\ IsArc(prec[v], v)
             /\ dist[prec[v]] + weight[prec[v]][v] = dist[v]

\* ------------------------------------------------------------ the runs
Targets == V \cup {None}

\* the inputs of the four functions: every weight is >= 0, as the assert of
\* dijkstra.py line 25 demands
InitSP ==
    /\ graph \in Graphs(N, MaxArcs)
    /\ \E w \in [ArcsOf(graph) -> 0 .. MaxW] : weight = Matrix(graph, w)
    /\ source \in V
    /\ target \in Targets
    /\ dj = Idle
    /\ uh = Idle
    /\ zo = Idle
    /\ bf = Idle
    /\ capacity = <<>>
    /\ ff = Idle
    /\ bigraph = <<>>
    /\ bm = Idle
    /\ fw = Idle
    /\ ra = Idle

NextSP ==
    \/ DijkstraCall
    \/ DijkstraLoop
    \/ DijkstraReturn
    \/ UpdateHeapCall
    \/ UpdateHeapLoop
    \/ UpdateHeapReturn
    \/ Dist01Call
    \/ Dist01Loop
    \/ Dist01Return
    \/ BfsCall
    \/ BfsLoop
    \/ BfsReturn

Spec == InitSP /\ [][NextSP]_vars

\* ====================================================== ford_fulkerson
\* number of vertices of a flow network
NF == 4
\* largest capacity of an input arc
MaxCap == 2
\* largest sum of the capacities of a flow network
MaxTotalCap == 5

VF == 0 .. (NF - 1)

\* longest record kept of the values the calls of _augment returned: a
\* network of total capacity MaxTotalCap is augmented at most MaxTotalCap
\* times before a call returns 0
MaxAugs == MaxTotalCap + 2

RECURSIVE SumOver(_, _)
\* the sum of f[x] over the x of the finite set S
SumOver(f, S) ==
    IF S = {} THEN 0
    ELSE LET x == CHOOSE y \in S : TRUE
         IN  f[x] + SumOver(f, S \ {x})

\* add_reverse_arcs setting the capacity of the reverse arc to 0 whether
\* or not the arc was there
RECURSIVE AddReverseArcsZeroAlways(_, _, _, _)
AddReverseArcsZeroAlways(g, capac, u, i) ==
    IF u >= Cardinality(DOMAIN g) THEN [graph |-> g, capac |-> capac]
    ELSE IF i > Len(g[u]) THEN AddReverseArcsZeroAlways(g, capac, u + 1, 1)
    ELSE LET v == g[u][i]
         IN  IF u \notin Range(g[v])
             THEN AddReverseArcsZeroAlways(
                     [g EXCEPT ![v] = Append(@, u)],
                     [capac EXCEPT ![v][u] = 0],
                     u, i + 1)
             ELSE AddReverseArcsZeroAlways(
                     g, [capac EXCEPT ![v][u] = 0], u, i + 1)

\* graph.py, add_reverse_arcs: the loops over u and over graph[u], from
\* vertex u and the i-th entry of graph[u] on
RECURSIVE add_reverse_arcs_from(_, _, _, _)
add_reverse_arcs_from(g, capac, u, i) ==
    IF u >= Cardinality(DOMAIN g) THEN [graph |-> g, capac |-> capac]
    ELSE IF i > Len(g[u]) THEN add_reverse_arcs_from(g, capac, u + 1, 1)
    ELSE LET v == g[u][i]
         IN  IF u \notin Range(g[v])
             THEN add_reverse_arcs_from(
                     [g EXCEPT ![v] = Append(@, u)],
                     [capac EXCEPT ![v][u] = 0],
                     u, i + 1)
             ELSE add_reverse_arcs_from(g, capac, u, i + 1)

add_reverse_arcs(g, capac) == add_reverse_arcs_from(g, capac, 0, 1)

\* ----------------------------------- add_reverse_arcs, called on its own
\* largest number of arcs of a graph handed to add_reverse_arcs
MaxLoopArcs == 4

\* the lists of distinct elements of S
ListsOver(S) == {l \in SeqsUpTo(S, Cardinality(S)) : Injective(l)}

\* the graphs over 0 .. n-1 with at most m arcs, an arc from a vertex to
\* itself allowed
LoopGraphs(n, m) ==
    {g \in [0 .. (n - 1) -> ListsOver(0 .. (n - 1))] : TotalLen(g, n) <= m}

\* a first call of add_reverse_arcs(graph, capac) on the caller's tables
AddReverseArcsCall ==
    /\ ra.pc = "idle"
    /\ LET r == add_reverse_arcs(graph, capacity)
       IN  /\ graph' = r.graph
           /\ capacity' = r.capac
    /\ ra' = [pc |-> "once", in_graph |-> graph, in_capacity |-> capacity]
    /\ UNCHANGED notRA

\* a second call on the tables the first call left
AddReverseArcsAgain ==
    /\ ra.pc = "once"
    /\ LET r == add_reverse_arcs(graph, capacity)
       IN  /\ graph' = r.graph
           /\ capacity' = r.capac
    /\ ra' = [pc |-> "twice",
              in_graph |-> ra.in_graph,
              in_capacity |-> ra.in_capacity,
              once_graph |-> graph,
              once_capacity |-> capacity]
    /\ UNCHANGED notRA

\* the graphs with every arc, an arc from a vertex to itself included,
\* given a capacity in 0 .. MaxCap
InitRA ==
    /\ graph \in LoopGraphs(N, MaxLoopArcs)
    /\ \E c \in [ArcsOf(graph) -> 0 .. MaxCap] : capacity = Matrix(graph, c)
    /\ ra = Idle
    /\ source = None
    /\ target = None
    /\ weight = <<>>
    /\ dj = Idle
    /\ uh = Idle
    /\ zo = Idle
    /\ bf = Idle
    /\ ff = Idle
    /\ bigraph = <<>>
    /\ bm = Idle
    /\ fw = Idle

NextRA ==
    \/ AddReverseArcsCall
    \/ AddReverseArcsAgain

SpecRA == InitRA /\ [][NextRA]_vars

\* _augment with the flow subtracted from the reverse arc left out
RECURSIVE AugmentNoReverse(_, _, _)
RECURSIVE AugmentNoReverseScan(_, _, _, _)
AugmentNoReverse(st, val, u) ==
    LET st1 == [st EXCEPT !.visit[u] = TRUE]
    IN  IF u = target THEN [delta |-> val, flow |-> st1.flow, visit |-> st1.visit]
        ELSE AugmentNoReverseScan(st1, val, u, 1)

AugmentNoReverseScan(st, val, u, i) ==
    IF i > Len(graph[u]) THEN [delta |-> 0, flow |-> st.flow, visit |-> st.visit]
    ELSE LET v == graph[u][i]
             cuv == capacity[u][v]
         IN  IF ~st.visit[v] /\ cuv > st.flow[u][v]
             THEN LET res == Min2(val, cuv - st.flow[u][v])
                      r == AugmentNoReverse(st, res, v)
                  IN  IF r.delta > 0
                      THEN [delta |-> r.delta,
                            flow |-> [r.flow EXCEPT ![u][v] = @ + r.delta],
                            visit |-> r.visit]
                      ELSE AugmentNoReverseScan(
                              [flow |-> r.flow, visit |-> r.visit], val, u, i + 1)
             ELSE AugmentNoReverseScan(st, val, u, i + 1)

\* _augment passing val on without the residual capacity of the arc
RECURSIVE AugmentNoMin(_, _, _)
RECURSIVE AugmentNoMinScan(_, _, _, _)
AugmentNoMin(st, val, u) ==
    LET st1 == [st EXCEPT !.visit[u] = TRUE]
    IN  IF u = target THEN [delta |-> val, flow |-> st1.flow, visit |-> st1.visit]
        ELSE AugmentNoMinScan(st1, val, u, 1)

AugmentNoMinScan(st, val, u, i) ==
    IF i > Len(graph[u]) THEN [delta |-> 0, flow |-> st.flow, visit |-> st.visit]
    ELSE LET v == graph[u][i]
             cuv == capacity[u][v]
         IN  IF ~st.visit[v] /\ cuv > st.flow[u][v]
             THEN LET res == val
                      r == AugmentNoMin(st, res, v)
                  IN  IF r.delta > 0
                      THEN [delta |-> r.delta,
                            flow |-> [r.flow EXCEPT ![u][v] = @ + r.delta,
                                                    ![v][u] = @ - r.delta],
                            visit |-> r.visit]
                      ELSE AugmentNoMinScan(
                              [flow |-> r.flow, visit |-> r.visit], val, u, i + 1)
             ELSE AugmentNoMinScan(st, val, u, i + 1)

\* _augment crossing an arc only while its flow is not negative
RECURSIVE AugmentForwardOnly(_, _, _)
RECURSIVE AugmentForwardOnlyScan(_, _, _, _)
AugmentForwardOnly(st, val, u) ==
    LET st1 == [st EXCEPT !.visit[u] = TRUE]
    IN  IF u = target THEN [delta |-> val, flow |-> st1.flow, visit |-> st1.visit]
        ELSE AugmentForwardOnlyScan(st1, val, u, 1)

AugmentForwardOnlyScan(st, val, u, i) ==
    IF i > Len(graph[u]) THEN [delta |-> 0, flow |-> st.flow, visit |-> st.visit]
    ELSE LET v == graph[u][i]
             cuv == capacity[u][v]
         IN  IF ~st.visit[v] /\ st.flow[u][v] >= 0 /\ cuv > st.flow[u][v]
             THEN LET res == Min2(val, cuv - st.flow[u][v])
                      r == AugmentForwardOnly(st, res, v)
                  IN  IF r.delta > 0
                      THEN [delta |-> r.delta,
                            flow |-> [r.flow EXCEPT ![u][v] = @ + r.delta,
                                                    ![v][u] = @ - r.delta],
                            visit |-> r.visit]
                      ELSE AugmentForwardOnlyScan(
                              [flow |-> r.flow, visit |-> r.visit], val, u, i + 1)
             ELSE AugmentForwardOnlyScan(st, val, u, i + 1)

\* ford_fulkerson.py, _augment: lines 12-14 (_augment) and the loop of
\* lines 15-24 from the i-th entry of graph[u] on (_augment_scan).  st holds
\* the two tables the calls share, flow and visit; the result is the value
\* returned and the tables as the call leaves them.
RECURSIVE _augment(_, _, _)
RECURSIVE _augment_scan(_, _, _, _)
_augment(st, val, u) ==
    LET st1 == [st EXCEPT !.visit[u] = TRUE]
    IN  IF u = target THEN [delta |-> val, flow |-> st1.flow, visit |-> st1.visit]
        ELSE _augment_scan(st1, val, u, 1)

_augment_scan(st, val, u, i) ==
    IF i > Len(graph[u]) THEN [delta |-> 0, flow |-> st.flow, visit |-> st.visit]
    ELSE LET v == graph[u][i]
             cuv == capacity[u][v]
         IN  IF ~st.visit[v] /\ cuv > st.flow[u][v]
             THEN LET res == Min2(val, cuv - st.flow[u][v])
                      r == _augment(st, res, v)
                  IN  IF r.delta > 0
                      THEN [delta |-> r.delta,
                            flow |-> [r.flow EXCEPT ![u][v] = @ + r.delta,
                                                    ![v][u] = @ - r.delta],
                            visit |-> r.visit]
                      ELSE _augment_scan(
                              [flow |-> r.flow, visit |-> r.visit], val, u, i + 1)
             ELSE _augment_scan(st, val, u, i + 1)

\* lines 38-41: the reverse arcs are added to the caller's graph and
\* capacity, the flow is 0 everywhere
FordFulkersonCall ==
    /\ ff.pc = "idle"
    /\ LET r == add_reverse_arcs(graph, capacity)
       IN  /\ graph' = r.graph
           /\ capacity' = r.capac
    /\ ff' = [pc |-> "loop",
              flow |-> [u \in VF |-> [v \in VF |-> 0]],
              in_graph |-> graph,
              in_capacity |-> capacity,
              augs |-> <<>>,
              cancelled |-> FALSE]
    /\ UNCHANGED <<source, target, notFF>>

\* lines 42-43: one evaluation of the condition of the while loop; augs
\* records the values returned, the first MaxAugs of them
FordFulkersonLoop ==
    /\ ff.pc = "loop"
    /\ LET r == _augment([flow |-> ff.flow, visit |-> [v \in VF |-> FALSE]],
                         Inf, source)
       IN  ff' = [ff EXCEPT !.flow = r.flow,
                            !.augs = IF Len(@) < MaxAugs
                                     THEN Append(@, r.delta) ELSE @,
                            !.cancelled = @ \/ \E u, v \in VF :
                                 ff.flow[u][v] > 0 /\ r.flow[u][v] < ff.flow[u][v],
                            !.pc = IF r.delta > 0 THEN "loop" ELSE "exit"]
    /\ UNCHANGED <<graph, capacity, source, target, notFF>>

\* line 44
FordFulkersonReturn ==
    /\ ff.pc = "exit"
    /\ ff' = [pc |-> "done",
              flow |-> ff.flow,
              flow_value |-> SumOver(ff.flow[source], VF),
              in_graph |-> ff.in_graph,
              in_capacity |-> ff.in_capacity,
              augs |-> ff.augs,
              cancelled |-> ff.cancelled]
    /\ UNCHANGED <<graph, capacity, source, target, notFF>>

\* the flow networks: every arc with a capacity in 1 .. MaxCap (an arc of
\* capacity 0 is what add_reverse_arcs adds), source and target distinct
InitFF ==
    /\ graph \in Graphs(NF, MaxTotalCap)
    /\ \E c \in [ArcsOf(graph) -> 1 .. MaxCap] :
          /\ SumOver(c, ArcsOf(graph)) <= MaxTotalCap
          /\ capacity = Matrix(graph, c)
    /\ source \in VF
    /\ target \in VF \ {source}
    /\ ff = Idle
    /\ weight = <<>>
    /\ dj = Idle
    /\ uh = Idle
    /\ zo = Idle
    /\ bf = Idle
    /\ bigraph = <<>>
    /\ bm = Idle
    /\ fw = Idle
    /\ ra = Idle

NextFF ==
    \/ FordFulkersonCall
    \/ FordFulkersonLoop
    \/ FordFulkersonReturn

SpecFF == InitFF /\ [][NextFF]_vars

\* largest sum of the capacities of a flow network of InitFFAny
MaxLiveCap == 3

\* the flow networks with any pair of vertices as source and target, the
\* two equal ones included
InitFFAny ==
    /\ graph \in Graphs(NF, MaxLiveCap)
    /\ \E c \in [ArcsOf(graph) -> 1 .. MaxCap] :
          /\ SumOver(c, ArcsOf(graph)) <= MaxLiveCap
          /\ capacity = Matrix(graph, c)
    /\ source \in VF
    /\ target \in VF
    /\ ff = Idle
    /\ ra = Idle
    /\ weight = <<>>
    /\ dj = Idle
    /\ uh = Idle
    /\ zo = Idle
    /\ bf = Idle
    /\ bigraph = <<>>
    /\ bm = Idle
    /\ fw = Idle

\* ford_fulkerson is sequential code: a statement that can run does run
SpecFFLive == InitFFAny /\ [][NextFF]_vars /\ WF_vars(NextFF)


\* ------------------------------------------------- flows, by definition
InputArcs == ArcsOf(ff.in_graph)

\* the capacity of the cut (S, VF \ S) of the input network
CutCapacity(S) ==
    SumOver([a \in InputArcs |-> ff.in_capacity[a[1]][a[2]]],
            {a \in InputArcs : a[1] \in S /\ a[2] \notin S})

MinCut ==
    LET cuts == {CutCapacity(S \cup {source}) : S \in SUBSET (VF \ {source, target})}
    IN  CHOOSE c \in cuts : \A d \in cuts : c <= d

\* the vertices reached from the set R over arcs with capacity[u][v] - flow[u][v] > 0
RECURSIVE ResidualReach(_)
ResidualReach(R) ==
    LET more == {v \in VF \ R : \E u \in R :
                    IsArc(u, v) /\ capacity[u][v] - ff.flow[u][v] > 0}
    IN  IF more = {} THEN R ELSE ResidualReach(R \cup more)

Antisymmetric == \A u, v \in VF : ff.flow[u][v] = -ff.flow[v][u]

Conserved == \A v \in VF \ {source, target} : SumOver(ff.flow[v], VF) = 0

\* flow is a flow of the input network: what runs from u to v, less what
\* runs back, is flow[u][v], and no arc carries more than its capacity
IsNetFlow ==
    /\ Antisymmetric
    /\ Conserved
    /\ \A u, v \in VF :
          ff.flow[u][v] <= (IF <<u, v>> \in InputArcs THEN ff.in_capacity[u][v] ELSE 0)

Augmented == ff.pc \in {"loop", "exit", "done"}


\* ============================================== max_bipartite_matching
\* augment matching u only with a vertex v that is still free
RECURSIVE AugmentFreeOnly(_, _, _)
AugmentFreeOnly(st, u, i) ==
    IF i > Len(bigraph[u])
    THEN [found |-> FALSE, visit |-> st.visit, match |-> st.match]
    ELSE LET v == bigraph[u][i]
         IN  IF ~st.visit[v]
             THEN LET st1 == [st EXCEPT !.visit[v] = TRUE]
                  IN  IF st1.match[v] = None
                      THEN [found |-> TRUE, visit |-> st1.visit,
                            match |-> [st1.match EXCEPT ![v] = u]]
                      ELSE AugmentFreeOnly(st1, u, i + 1)
             ELSE AugmentFreeOnly(st, u, i + 1)

\* bipartite_matching.py, augment: the loop of lines 10-16 from the i-th
\* entry of bigraph[u] on.  st holds the two tables the calls share, visit
\* and match; the result is the value returned and the tables as the call
\* leaves them.
RECURSIVE augment(_, _, _)
augment(st, u, i) ==
    IF i > Len(bigraph[u])
    THEN [found |-> FALSE, visit |-> st.visit, match |-> st.match]
    ELSE LET v == bigraph[u][i]
         IN  IF ~st.visit[v]
             THEN LET st1 == [st EXCEPT !.visit[v] = TRUE]
                  IN  IF st1.match[v] = None
                      THEN [found |-> TRUE, visit |-> st1.visit,
                            match |-> [st1.match EXCEPT ![v] = u]]
                      ELSE LET r == augment(st1, st1.match[v], 1)
                           IN  IF r.found
                               THEN [found |-> TRUE, visit |-> r.visit,
                                     match |-> [r.match EXCEPT ![v] = u]]
                               ELSE augment([visit |-> r.visit, match |-> r.match],
                                            u, i + 1)
             ELSE augment(st, u, i + 1)

\* lines 28-29
MatchingCall ==
    /\ bm.pc = "idle"
    /\ bm' = [pc |-> "loop",
              u |-> 0,
              match |-> [v \in V |-> None],
              rerouted |-> FALSE]
    /\ UNCHANGED <<bigraph, notBM>>

\* lines 30-31: one iteration of the for loop
MatchingLoop ==
    /\ bm.pc = "loop"
    /\ bm.u < N
    /\ LET r == augment([visit |-> [v \in V |-> FALSE], match |-> bm.match],
                        bm.u, 1)
       IN  bm' = [bm EXCEPT !.match = r.match,
                            !.u = @ + 1,
                            !.rerouted = @ \/ \E v \in V :
                                 bm.match[v] # None /\ r.match[v] # bm.match[v]]
    /\ UNCHANGED <<bigraph, notBM>>

\* line 32
MatchingReturn ==
    /\ bm.pc = "loop"
    /\ bm.u = N
    /\ bm' = [bm EXCEPT !.pc = "done"]
    /\ UNCHANGED <<bigraph, notBM>>

\* the bipartite graphs over U = V = 0 .. N-1, every order of every
\* neighbour list
InitBM ==
    /\ bigraph \in [V -> {l \in SeqsUpTo(V, N) : Injective(l)}]
    /\ bm = Idle
    /\ graph = <<>>
    /\ weight = <<>>
    /\ source = None
    /\ target = None
    /\ dj = Idle
    /\ uh = Idle
    /\ zo = Idle
    /\ bf = Idle
    /\ capacity = <<>>
    /\ ff = Idle
    /\ fw = Idle
    /\ ra = Idle

NextBM ==
    \/ MatchingCall
    \/ MatchingLoop
    \/ MatchingReturn

SpecBM == InitBM /\ [][NextBM]_vars

\* --------------------------------------------- matchings, by definition
\* the sets of edges (u, v) of bigraph no two of which share a vertex
Matchings ==
    {M \in SUBSET ArcsOf(bigraph) :
        \A a, b \in M : a # b => (a[1] # b[1] /\ a[2] # b[2])}

MaxMatchingSize ==
    LET sizes == {Cardinality(M) : M \in Matchings}
    IN  CHOOSE k \in sizes : \A j \in sizes : j <= k

Matched(match) == {v \in V : match[v] # None}


\* ====================================================== floyd_warshall
\* the relaxation through k going from k to v by the entry weight[v][k]
RECURSIVE RelaxThroughTransposed(_, _, _, _)
RelaxThroughTransposed(w, k, u, v) ==
    IF u >= N THEN w
    ELSE IF v >= N THEN RelaxThroughTransposed(w, k, u + 1, 0)
    ELSE RelaxThroughTransposed(
            [w EXCEPT ![u][v] = Min2(w[u][v], Plus(w[u][k], w[v][k]))],
            k, u, v + 1)

\* floyd_warshall.py, lines 17-20: the loops over u and v for one k, from
\* the pair (u, v) on; the matrix is updated in place, so a later pair
\* reads what an earlier pair wrote
RECURSIVE RelaxThrough(_, _, _, _)
RelaxThrough(w, k, u, v) ==
    IF u >= N THEN w
    ELSE IF v >= N THEN RelaxThrough(w, k, u + 1, 0)
    ELSE RelaxThrough(
            [w EXCEPT ![u][v] = Min2(w[u][v], Plus(w[u][k], w[k][v]))],
            k, u, v + 1)

\* line 15
FloydWarshallCall ==
    /\ fw.pc = "idle"
    /\ fw' = [pc |-> "loop", k |-> 0, in_weight |-> weight]
    /\ UNCHANGED <<weight, notFW>>

\* lines 16-20: one iteration of the loop over k
FloydWarshallLoop ==
    /\ fw.pc = "loop"
    /\ fw.k < N
    /\ weight' = RelaxThrough(weight, fw.k, 0, 0)
    /\ fw' = [fw EXCEPT !.k = @ + 1]
    /\ UNCHANGED notFW

\* lines 21-24
FloydWarshallReturn ==
    /\ fw.pc = "loop"
    /\ fw.k = N
    /\ fw' = [pc |-> "done",
              k |-> fw.k,
              in_weight |-> fw.in_weight,
              result |-> \E v \in V : weight[v][v] < 0]
    /\ UNCHANGED <<weight, notFW>>

\* the matrices with 0 on the diagonal and, elsewhere, a weight in
\* -MaxW .. MaxW or Inf for an absent arc
InitFW ==
    /\ \E w \in [Arcs -> (-MaxW .. MaxW) \cup {Inf}] :
          weight = [u \in V |-> [v \in V |-> IF u = v THEN 0 ELSE w[<<u, v>>]]]
    /\ fw = Idle
    /\ graph = <<>>
    /\ source = None
    /\ target = None
    /\ dj = Idle
    /\ uh = Idle
    /\ zo = Idle
    /\ bf = Idle
    /\ capacity = <<>>
    /\ ff = Idle
    /\ bigraph = <<>>
    /\ bm = Idle
    /\ ra = Idle

NextFW ==
    \/ FloydWarshallCall
    \/ FloydWarshallLoop
    \/ FloydWarshallReturn

SpecFW == InitFW /\ [][NextFW]_vars

\* ------------------------------------- all-pairs distances, by definition
\* the simple paths from u to v over the arcs of the input matrix
MatrixPaths(u, v) ==
    {p \in SeqsUpTo(V, N) :
        /\ Len(p) >= 1
        /\ p[1] = u
        /\ p[Len(p)] = v
        /\ Injective(p)
        /\ \A i \in 1 .. (Len(p) - 1) : fw.in_weight[p[i]][p[i + 1]] # Inf}

RECURSIVE MatrixPathWeight(_, _)
MatrixPathWeight(p, i) ==
    IF i >= Len(p) THEN 0
    ELSE fw.in_weight[p[i]][p[i + 1]] + MatrixPathWeight(p, i + 1)

\* the weight of a shortest path from u to v, Inf without a path
MatrixDist(u, v) ==
    LET ws == {MatrixPathWeight(p, 1) : p \in MatrixPaths(u, v)}
    IN  IF ws = {} THEN Inf ELSE CHOOSE w \in ws : \A x \in ws : w <= x

\* some cycle of the input matrix has a negative total weight: a simple
\* path of at least two vertices whose last vertex has an arc to the first
HasNegativeCycle ==
    \E u, v \in V :
        /\ u # v
        /\ fw.in_weight[v][u] # Inf
        /\ \E p \in MatrixPaths(u, v) :
              MatrixPathWeight(p, 1) + fw.in_weight[v][u] < 0


\* ---------------------------------------------------------------- claims

\* C1: dijkstra called without target returns dist and prec such that
\* dist[v] is the weight of a shortest path from source to v (0 for the
\* source, infinity for an unreachable v), prec is None for the source and
\* for every unreachable v, and for every other v prec[v] is an in-neighbour
\* u of v with dist[u] + weight[u][v] = dist[v].
C1_DijkstraShortestPathTree ==
    (dj.pc = "done" /\ target = None) => IsShortestPathTree(dj.dist, dj.prec)

\* a finished call without target that improved a tentative distance: some
\* vertex is reached over two arcs although the source has a direct,
\* heavier arc to it
C1_Witness ==
    /\ dj.pc = "done"
    /\ target = None
    /\ \E v \in V \ {source} :
          /\ IsArc(source, v)
          /\ dj.dist[v] < weight[source][v]
          /\ dj.prec[v] # source

\* C2: for every input and every choice of target, dijkstra and
\* dijkstra_update_heap return identical dist tables and identical prec
\* tables (and no update of the heap fails).
C2_SameTables ==
    /\ uh.pc # "error"
    /\ uh.pc = "done" => (uh.dist = dj.dist /\ uh.prec = dj.prec)

\* both calls returned for a reachable target other than the source while
\* the lazy heap still held a stale duplicate of some vertex
C2_Witness ==
    /\ uh.pc = "done"
    /\ target \in V \ {source}
    /\ dj.dist[target] # Inf
    /\ \E i \in 1 .. Len(dj.heap) : dj.heap[i][1] > dj.dist[dj.heap[i][2]]

\* C3: for weights in {0,1} and no target, dist01 and dijkstra return
\* identical dist tables, also when dist01 held a vertex several times in
\* its deque.
C3_Dist01SameDist ==
    (zo.pc = "done" /\ target = None /\ Weights01) => zo.dist = dj.dist

\* a finished call of dist01 that took the same vertex out of its deque twice
C3_Witness ==
    /\ zo.pc = "done"
    /\ target = None
    /\ Weights01
    /\ \E i, j \in 1 .. Len(zo.popped) : i # j /\ zo.popped[i] = zo.popped[j]

\* C4: with every arc weight 1 and no target, bfs and dist01 return
\* identical dist tables: the least number of arcs from the source for a
\* reachable vertex, infinity for an unreachable one.
C4_BfsSameDist ==
    (bf.pc = "done" /\ target = None /\ WeightsUnit) =>
        /\ bf.dist = zo.dist
        /\ \A v \in V : bf.dist[v] = ShortestDist(source, v)

\* a finished bfs on unit weights with a vertex two arcs away and a vertex
\* found again over a second arc
C4_Witness ==
    /\ bf.pc = "done"
    /\ target = None
    /\ WeightsUnit
    /\ \E v \in V : bf.dist[v] = 2
    /\ NbArcs = MaxArcs

\* what C5 says of one call st whose loop has been left
StoppedAtTarget(st) ==
    /\ st.dist[target] = ShortestDist(source, target)
    /\ ShortestDist(source, target) # Inf =>
          /\ Last(st.popped) = target
          /\ \A i \in 1 .. Len(st.scanned) : st.scanned[i] # target
    /\ source = target => (st.dist[target] = 0 /\ st.popped = <<target>>)

\* the loop of a call st cannot run for ever: every iteration takes one
\* entry out of the frontier, which receives at most one entry per vertex
\* at the start and one per arc
Returns(st) == st.pc # "idle" => Len(st.popped) <= N + NbArcs

\* C5: with a target, dijkstra, dijkstra_update_heap and dist01 leave the
\* loop when the target is extracted, dist[target] being then the
\* shortest-path distance (0 when source = target); with an unreachable
\* target the call still returns, with dist[target] = infinity.
C5_EarlyExit ==
    target \in V =>
        /\ dj.pc \in {"break", "done"} => StoppedAtTarget(dj)
        /\ uh.pc \in {"break", "done"} => StoppedAtTarget(uh)
        /\ (zo.pc \in {"break", "done"} /\ Weights01) => StoppedAtTarget(zo)
        /\ Returns(dj) /\ Returns(uh) /\ Returns(zo)

\* the three calls returned for a reachable target while other vertices
\* were still in the frontier of dijkstra
C5_Witness ==
    /\ zo.pc = "done"
    /\ Weights01
    /\ target \in V \ {source}
    /\ ShortestDist(source, target) # Inf
    /\ dj.heap # <<>>
    /\ \E v \in V : dj.dist[v] # Inf /\ ~dj.black[v]

\* C6: ford_fulkerson returns flow_value = sum(flow[source]), the value of
\* a maximum flow of the network, equal to the capacity of a minimum cut
\* between source and target; when the loop stops no path of arcs with
\* capacity[u][v] - flow[u][v] > 0 leads from source to target.
C6_MaxFlow ==
    ff.pc = "done" =>
        /\ ff.flow_value = SumOver(ff.flow[source], VF)
        /\ IsNetFlow
        /\ ff.flow_value = MinCut
        /\ target \notin ResidualReach({source})

\* a returned flow of value 2 one of whose augmentations took back flow
\* that an earlier one had put on an arc
C6_Witness ==
    /\ ff.pc = "done"
    /\ ff.flow_value = 2
    /\ ff.cancelled

\* C7: after every call of _augment from the main loop and in the returned
\* matrix, flow[u][v] = -flow[v][u] for every pair of vertices and the sum
\* of flow[v][w] over w is 0 for every vertex v other than source and target.
C7_AntisymmetryConservation == Augmented => (Antisymmetric /\ Conserved)

\* two successful augmentations and the failing one have run, and flow
\* crosses a vertex other than source and target
C7_Witness ==
    /\ ff.pc = "done"
    /\ Len(ff.augs) >= 3
    /\ \E v \in VF \ {source, target} : \E w \in VF : ff.flow[v][w] > 0

\* C8 as stated: every arc (u,v) of the input graph has
\* 0 <= flow[u][v] <= capacity[u][v], also when (v,u) is an input arc.
C8_ForwardArcsWithinCapacity ==
    Augmented =>
        \A a \in InputArcs :
            /\ 0 <= ff.flow[a[1]][a[2]]
            /\ ff.flow[a[1]][a[2]] <= ff.in_capacity[a[1]][a[2]]

\* C8 amended: every arc (u,v) of the input graph has
\* flow[u][v] <= capacity[u][v]; 0 <= flow[u][v] when (v,u) is not an input
\* arc, and -capacity[v][u] <= flow[u][v] when it is.
C8_NetFlowWithinCapacity ==
    Augmented =>
        \A a \in InputArcs :
            /\ ff.flow[a[1]][a[2]] <= ff.in_capacity[a[1]][a[2]]
            /\ <<a[2], a[1]>> \notin InputArcs => 0 <= ff.flow[a[1]][a[2]]
            /\ <<a[2], a[1]>> \in InputArcs =>
                  -ff.in_capacity[a[2]][a[1]] <= ff.flow[a[1]][a[2]]

\* after an augmentation an input arc without reverse input arc is
\* saturated at capacity 2, and of two opposite input arcs one has a
\* negative flow
C8_Witness ==
    /\ Augmented
    /\ \E a \in InputArcs :
          /\ <<a[2], a[1]>> \notin InputArcs
          /\ ff.in_capacity[a[1]][a[2]] = 2
          /\ ff.flow[a[1]][a[2]] = 2
    /\ \E a \in InputArcs :
          /\ <<a[2], a[1]>> \in InputArcs
          /\ ff.flow[a[1]][a[2]] < 0

\* C9: max_bipartite_matching returns a table match that is a matching
\* (match[v] = u implies v in bigraph[u], and no u is match[v] for two
\* different v) with as many matched vertices as a maximum matching found
\* by exhaustive search has edges, whatever the order of the neighbour lists.
C9_MaximumMatching ==
    bm.pc = "done" =>
        /\ \A v \in Matched(bm.match) : <<bm.match[v], v>> \in ArcsOf(bigraph)
        /\ \A v, w \in Matched(bm.match) : v # w => bm.match[v] # bm.match[w]
        /\ Cardinality(Matched(bm.match)) = MaxMatchingSize

\* a returned matching of every vertex for which an augmenting path gave a
\* matched vertex of V to another vertex of U
C9_Witness ==
    /\ bm.pc = "done"
    /\ bm.rerouted
    /\ Cardinality(Matched(bm.match)) = N

\* C10: on a matrix with 0 on the diagonal and +infinity for absent arcs
\* floyd_warshall returns True exactly when the graph has a cycle of
\* negative total weight, and when it returns False every weight[u][v] is
\* the shortest-path distance from u to v (+infinity without a path).
C10_FloydWarshall ==
    fw.pc = "done" =>
        /\ fw.result = HasNegativeCycle
        /\ ~fw.result => \A u, v \in V : weight[u][v] = MatrixDist(u, v)

\* False is returned for a matrix with a negative arc, an entry that went
\* from +infinity to a distance and an entry that stayed +infinity
C10_Witness ==
    /\ fw.pc = "done"
    /\ ~fw.result
    /\ \E u, v \in V : fw.in_weight[u][v] < 0
    /\ \E u, v \in V : fw.in_weight[u][v] = Inf /\ weight[u][v] < 0
    /\ \E u, v \in V : weight[u][v] = Inf

\* the first sequence is the beginning of the second
IsPrefix(s, t) == Len(s) <= Len(t) /\ SubSeq(t, 1, Len(s)) = s

\* the arcs the calls of add_reverse_arcs have added
AddedArcs == ArcsOf(graph) \ ArcsOf(ra.in_graph)

\* C11: after add_reverse_arcs(graph, capac) every arc (u,v) has its arc
\* (v,u); an arc (v,u) is added, once and with capac[v][u] = 0, only where
\* it was absent and (u,v) was there; an arc that existed keeps its
\* position in its list and its capacity, no other entry of capac changes;
\* the arcs from a vertex to itself are the same as before; and a second
\* call on the result changes neither graph nor capac.
C11_AddReverseArcs ==
    ra.pc \in {"once", "twice"} =>
        /\ \A a \in ArcsOf(graph) : <<a[2], a[1]>> \in ArcsOf(graph)
        /\ \A u \in V : IsPrefix(ra.in_graph[u], graph[u]) /\ Injective(graph[u])
        /\ \A a \in AddedArcs :
              /\ <<a[2], a[1]>> \in ArcsOf(ra.in_graph)
              /\ capacity[a[1]][a[2]] = 0
        /\ \A u, v \in V :
              <<u, v>> \notin AddedArcs => capacity[u][v] = ra.in_capacity[u][v]
        /\ \A u \in V :
              /\ <<u, u>> \in ArcsOf(graph) <=> <<u, u>> \in ArcsOf(ra.in_graph)
              /\ capacity[u][u] = ra.in_capacity[u][u]
        /\ ra.pc = "twice" =>
              /\ graph = ra.once_graph
              /\ capacity = ra.once_capacity

\* two calls made on a graph with an arc from a vertex to itself, an arc
\* whose reverse arc was missing and a pair of opposite arcs of positive
\* capacity
C11_Witness ==
    /\ ra.pc = "twice"
    /\ \E u \in V : <<u, u>> \in ArcsOf(ra.in_graph)
    /\ AddedArcs # {}
    /\ \E u, v \in V :
          /\ u # v
          /\ <<u, v>> \in ArcsOf(ra.in_graph)
          /\ <<v, u>> \in ArcsOf(ra.in_graph)
          /\ ra.in_capacity[u][v] > 0
          /\ ra.in_capacity[v][u] > 0

\* the value of the flow, sum(flow[source])
FlowValue == SumOver(ff.flow[source], VF)

\* a call of _augment that returns a positive value, the loop going on,
\* raises sum(flow[source]) by at least 1
EachAugmentationRaises ==
    [][(ff.pc = "loop" /\ ff.pc' = "loop") => FlowValue' >= FlowValue + 1]_vars

\* C12: for every flow network with capacities in 1 .. MaxCap and every
\* pair of source and target vertices ford_fulkerson terminates: every
\* successful augmentation raises sum(flow[source]) by at least 1 and the
\* call comes to return.
C12_Terminates ==
    /\ <>(ff.pc = "done")
    /\ EachAugmentationRaises

\* the same for the pairs of two different vertices only
TerminatesForDistinctPair ==
    /\ (source # target) => <>(ff.pc = "done")
    /\ [][(source # target /\ ff.pc = "loop" /\ ff.pc' = "loop")
            => FlowValue' >= FlowValue + 1]_vars

\* where the vertex v stands in the call st: 0 unseen (distance infinite),
\* 1 frontier (distance tentative), 2 finalized (taken out of the frontier)
Phase(st, v) ==
    IF st.dist[v] = Inf THEN 0
    ELSE IF v \in Range(st.popped) THEN 2 ELSE 1

\* from the call as st to the call as st2 no vertex goes back and none
\* skips the frontier
Advances(st, st2) ==
    st.pc # "idle" => \A v \in V : Phase(st2, v) - Phase(st, v) \in {0, 1}

PhasesAdvance ==
    /\ Advances(dj, dj')
    /\ Advances(uh, uh')
    /\ Advances(zo, zo')
    /\ Advances(bf, bf')

\* the out-neighbour list of no vertex has been scanned twice in the call
ScannedOnce(st) == st.pc # "idle" => Injective(st.scanned)

\* C13: in each of bfs, dist01, dijkstra and dijkstra_update_heap a vertex
\* moves only unseen -> frontier -> finalized, and within one call the
\* out-neighbour list of any vertex is scanned at most once.
C13_ScannedAtMostOnce ==
    /\ [][PhasesAdvance]_vars
    /\ [](ScannedOnce(dj) /\ ScannedOnce(uh) /\ ScannedOnce(zo) /\ ScannedOnce(bf))

\* the same with the scans of dist01 left out
ScannedAtMostOnceButDist01 ==
    /\ [][PhasesAdvance]_vars
    /\ [](ScannedOnce(dj) /\ ScannedOnce(uh) /\ ScannedOnce(bf))

====
